---- MODULE Spec2Model ----
(***************************************************************************)
(* The asynchronous submission/completion engine of rio (src/rio.cpp,      *)
(* main, lines 596-758) together with the io_uring ring it drives.         *)
(*                                                                         *)
(* The engine is one thread; `pc` is its position in main.  The kernel is  *)
(* the environment: it consumes flushed submission entries, completes      *)
(* operations in any order, and may fail any ring call.  The steady clock  *)
(* is the variable `now`; it may tick between any two steps of the engine, *)
(* so that two reads of Clock::now() in the source are two reads of `now`  *)
(* in two different actions.  One clock unit is one second.                *)
(***************************************************************************)
EXTENDS Integers, Sequences, FiniteSets, TLC

(* ------------------------------ bounds --------------------------------- *)
MaxD == 2          \* largest queue depth (--iodepth)
MaxSize == 3       \* largest byte budget (--size)
MaxBlock == 2      \* largest block size (--bs)
MaxRuntime == 1    \* largest duration (--runtime), seconds
MaxTime == 2       \* the clock stops ticking here
MaxOps == 3        \* duration runs: the kernel completes nothing before the
                   \* deadline once this many operations were submitted
MaxNlba == 4       \* largest namespace, in LBAs (function checks)
MaxBlockLbas == 3  \* largest block, in LBAs (function checks of random_lba)
WordBits == 3      \* bits of a uint32_t in the function checks; uint64_t
                   \* has twice as many (the checker's integers are 32-bit)
MaxLbads == 1      \* largest LBA data-size exponent: lba_size = 2^lbads
MaxPathLen == 6    \* longest device path, in characters
MaxSample == 3     \* longest latency sample
MaxLatency == 3    \* largest latency value of a sample

(* --------------------------- program constants ------------------------- *)
\* total_ops of a duration run (rio.cpp:598).  The source uses 2^64-1; the
\* model uses the largest integer of the checker, which no counter reaches.
UINT64_MAX == 2147483647
fixed_fd_idx == 0
\* nvme.fd, the descriptor open() returned (rio.cpp:315)
nvme_fd == 3
EAGAIN == 11
EIO == 5

SUBMIT_AND_WAIT == "SUBMIT_AND_WAIT"
SUBMIT == "SUBMIT"
SQPOLL == "SQPOLL"
SubmitMode == {SUBMIT_AND_WAIT, SUBMIT, SQPOLL}

VARIABLES
    cfg,            \* Config after parse_args
    pc,             \* position of the engine in main
    now,            \* Clock::now()
    deadline, start_time, end_time, elapsed_sec,
    total_ops, submitted_ops, completed_ops, in_flight,
    io_contexts,    \* slot -> [buffer, submit_time]
    latencies,      \* the latency ledger
    sq_pending,     \* entries built by io_uring_get_sqe, tail not yet flushed
    sq_ring,        \* entries flushed to the kernel, not yet consumed by it
    kernel,         \* operations the kernel has consumed and not yet completed
    cq,             \* completion entries from the consumer pointer to the tail
    head, count,    \* cursor of io_uring_for_each_cqe, entries processed
    buf_idx,        \* slot of the completion being processed
    ring_err,       \* history: the last error a ring call returned
    neg_reaped,     \* history: a completion with a negative result was reaped
    exit_code, fatal_msg, printed,
    res,            \* ring, registrations, buffers and device: what is set up
    refused_at,     \* history: submitted_ops at the first refused reissue, or -1
    processed,      \* history: ordinals of the completions the engine processed
    aux             \* call record of the helper functions (function checks)

vars == <<refused_at, processed, aux, res, cfg, pc, now, deadline, start_time, end_time, elapsed_sec, total_ops,
          submitted_ops, completed_ops, in_flight, io_contexts, latencies,
          sq_pending, sq_ring, kernel, cq, head, count, buf_idx, ring_err,
          neg_reaped, exit_code, fatal_msg, printed>>

Slots == 0 .. (cfg.iodepth - 1)

\* alloc_aligned_buffer: every slot owns its own buffer; the model names the
\* buffer of slot i by a distinct address.
alloc_aligned_buffer(i) == 100 + i

\* bool time_based = (cfg.runtime > 0)
time_based == cfg.runtime > 0

\* What the command line can set (an option that is not given leaves 0).
RawConfigs ==
    [iodepth : 0 .. MaxD, size : 0 .. MaxSize, runtime : 0 .. MaxRuntime,
     block_size : 0 .. MaxBlock, passthrough : BOOLEAN, is_write : BOOLEAN,
     submit_mode : SubmitMode]

\* Lines 194-204: the checks of parse_args on the numbers (--filename and a
\* supported --type are always given here).
parse_args_accepts(c) ==
    /\ ~(c.iodepth = 0 \/ c.block_size = 0)
    /\ ~(c.size = 0 /\ c.runtime = 0)

\* Configurations parse_args lets through.  With a runtime the size is never
\* read by main; the sizes 0 and MaxSize stand for all of them there.
Configs ==
    { c \in RawConfigs :
        /\ parse_args_accepts(c)
        /\ c.runtime > 0 => c.size \in {0, MaxSize} }

(* ------------------------- submission builders ------------------------- *)
\* (variant: the tag is left at zero)
io_uring_sqe_set_data_Zero(buf_index) == 0

\* io_uring_sqe_set_data(sqe, (void *)(uintptr_t)buf_index): the tag of a
\* non-negative int is the int itself.
io_uring_sqe_set_data(buf_index) == buf_index

\* (int)(uintptr_t)io_uring_cqe_get_data(cqe)
io_uring_cqe_get_data(cqe) == cqe.user_data

submit_read_direct(fd_idx, buf, size, buf_index) ==
    [opcode |-> "READ_FIXED", fd |-> fd_idx, fixed_file |-> TRUE, addr |-> buf,
     len |-> size, buf_index |-> buf_index, nvme_opcode |-> "none",
     user_data |-> io_uring_sqe_set_data(buf_index)]

submit_write_direct(fd_idx, buf, size, buf_index) ==
    [opcode |-> "WRITE_FIXED", fd |-> fd_idx, fixed_file |-> TRUE, addr |-> buf,
     len |-> size, buf_index |-> buf_index, nvme_opcode |-> "none",
     user_data |-> io_uring_sqe_set_data(buf_index)]

\* Passthrough entries take the raw buffer address and no registered buffer
\* (buf_index -1); data_len = blocks * lba_size.
submit_read_passthrough(fd_idx, buf, data_len, buf_index) ==
    [opcode |-> "URING_CMD", fd |-> fd_idx, fixed_file |-> TRUE, addr |-> buf,
     len |-> data_len, buf_index |-> -1, nvme_opcode |-> "nvme_cmd_read",
     user_data |-> io_uring_sqe_set_data(buf_index)]

submit_write_passthrough(fd_idx, buf, data_len, buf_index) ==
    [opcode |-> "URING_CMD", fd |-> fd_idx, fixed_file |-> TRUE, addr |-> buf,
     len |-> data_len, buf_index |-> -1, nvme_opcode |-> "nvme_cmd_write",
     user_data |-> io_uring_sqe_set_data(buf_index)]

\* The if/else ladder of main that picks the builder (lines 626-642 and
\* 725-743), called with io_contexts[idx].buffer and idx.
BuildSqe(idx) ==
    IF cfg.passthrough
    THEN IF cfg.is_write
         THEN submit_write_passthrough(fixed_fd_idx, io_contexts[idx].buffer,
                                       cfg.block_size, idx)
         ELSE submit_read_passthrough(fixed_fd_idx, io_contexts[idx].buffer,
                                      cfg.block_size, idx)
    ELSE IF cfg.is_write
         THEN submit_write_direct(fixed_fd_idx, io_contexts[idx].buffer,
                                  cfg.block_size, idx)
         ELSE submit_read_direct(fixed_fd_idx, io_contexts[idx].buffer,
                                 cfg.block_size, idx)

(* -------------------------------- ring --------------------------------- *)
\* setup_io_uring(&ring, cfg.iodepth, ...): the submission ring holds
\* queue_depth entries.
SqEntries == cfg.iodepth

\* io_uring_get_sqe returns NULL when every entry of the submission ring is
\* built or flushed and not yet consumed by the kernel.
SqFull == Len(sq_pending) + Len(sq_ring) >= SqEntries

\* An entry of the submission ring: the SQE, and as history the ordinal of the
\* submission, the slot main built it for and the clock reading it was
\* stamped with.
Entry(sqe, idx) == [sqe |-> sqe, op |-> submitted_ops, slot |-> idx, stamp |-> now]

\* What a ring call may return as an error.
Errnos == {-EAGAIN, -EIO}

Fatal(msg) ==
    /\ pc' = "fatal"
    /\ exit_code' = 1
    /\ fatal_msg' = msg

NoFatal == UNCHANGED <<exit_code, fatal_msg>>

(* -------------------------------- Init --------------------------------- *)
NoCall == [fn |-> "none"]

\* The state at line 559: arguments parsed, device open, nothing set up.
Init ==
    /\ cfg \in Configs
    /\ aux = NoCall
    /\ refused_at = -1
    /\ processed = {}
    /\ res = [ring_open |-> FALSE, reg_files |-> <<>>, reg_buffers |-> <<>>,
              buffers |-> "none", fd_open |-> TRUE]
    /\ pc = "setup_io_uring"
    /\ now = 0
    /\ deadline = 0
    /\ start_time = 0
    /\ end_time = 0
    /\ elapsed_sec = 0
    /\ total_ops = 0
    /\ submitted_ops = 0
    /\ completed_ops = 0
    /\ in_flight = 0
    /\ io_contexts = [i \in Slots |-> [buffer |-> 0, submit_time |-> 0]]
    /\ latencies = <<>>
    /\ sq_pending = <<>>
    /\ sq_ring = <<>>
    /\ kernel = {}
    /\ cq = <<>>
    /\ head = 0
    /\ count = 0
    /\ buf_idx = 0
    /\ ring_err = [call |-> "none", err |-> 0]
    /\ neg_reaped = FALSE
    /\ exit_code = 0
    /\ fatal_msg = ""
    /\ printed = FALSE

(* -------------------------------- setup -------------------------------- *)
\* Line 560: setup_io_uring; a failure of io_uring_queue_init_params is fatal.
SetupIoUring ==
    /\ pc = "setup_io_uring"
    /\ \/ /\ res' = [res EXCEPT !.ring_open = TRUE]
          /\ pc' = "register_files"
          /\ NoFatal
       \/ /\ Fatal("io_uring_queue_init failed")
          /\ UNCHANGED res
    /\ UNCHANGED <<refused_at, processed, aux, cfg, now, deadline, start_time, end_time, elapsed_sec,
                   total_ops, submitted_ops, completed_ops, in_flight,
                   io_contexts, latencies, sq_pending, sq_ring, kernel, cq, head,
                   count, buf_idx, ring_err, neg_reaped, printed>>

\* Lines 563-568: io_uring_register_files(&ring, &nvme.fd, 1)
RegisterFiles ==
    /\ pc = "register_files"
    /\ \/ /\ res' = [res EXCEPT !.reg_files = <<nvme_fd>>]
          /\ pc' = "alloc_contexts"
          /\ NoFatal
       \/ /\ Fatal("io_uring_register_files failed")
          /\ UNCHANGED res
    /\ UNCHANGED <<refused_at, processed, aux, cfg, now, deadline, start_time, end_time, elapsed_sec,
                   total_ops, submitted_ops, completed_ops, in_flight,
                   io_contexts, latencies, sq_pending, sq_ring, kernel, cq, head,
                   count, buf_idx, ring_err, neg_reaped, printed>>

\* Lines 571-576: one aligned buffer per slot.
AllocContexts ==
    /\ pc = "alloc_contexts"
    /\ \/ /\ io_contexts' = [i \in Slots |->
                                [io_contexts[i] EXCEPT !.buffer = alloc_aligned_buffer(i)]]
          /\ res' = [res EXCEPT !.buffers = "allocated"]
          /\ pc' = "register_buffers"
          /\ NoFatal
       \/ /\ Fatal("Failed to allocate aligned buffer")
          /\ UNCHANGED <<io_contexts, res>>
    /\ UNCHANGED <<refused_at, processed, aux, cfg, now, deadline, start_time, end_time, elapsed_sec,
                   total_ops, submitted_ops, completed_ops, in_flight, latencies,
                   sq_pending, sq_ring, kernel, cq, head, count, buf_idx,
                   ring_err, neg_reaped, printed>>

\* (variant: the pool is registered in the opposite order)
Iovecs_Reversed == [k \in 1 .. cfg.iodepth |-> io_contexts[cfg.iodepth - k].buffer]

\* Lines 581-586: iovecs[i].iov_base = io_contexts[i].buffer
Iovecs == [k \in 1 .. cfg.iodepth |-> io_contexts[k - 1].buffer]

\* Line 579: if (!cfg.passthrough)
RegistersBuffers == ~cfg.passthrough

\* Lines 578-593: the buffer pool is registered as fixed buffers.
RegisterBuffers ==
    /\ pc = "register_buffers"
    /\ IF RegistersBuffers
       THEN \/ /\ res' = [res EXCEPT !.reg_buffers = Iovecs]
               /\ pc' = "deadline"
               /\ NoFatal
            \/ /\ Fatal("io_uring_register_buffers failed")
               /\ UNCHANGED res
       ELSE /\ pc' = "deadline"
            /\ NoFatal
            /\ UNCHANGED res
    /\ UNCHANGED <<refused_at, processed, aux, cfg, now, deadline, start_time, end_time, elapsed_sec,
                   total_ops, submitted_ops, completed_ops, in_flight,
                   io_contexts, latencies, sq_pending, sq_ring, kernel, cq, head,
                   count, buf_idx, ring_err, neg_reaped, printed>>

(* ------------------------------- engine -------------------------------- *)
\* uint64_t total_ops = time_based ? UINT64_MAX : cfg.size / cfg.block_size
TotalOps == IF time_based THEN UINT64_MAX ELSE cfg.size \div cfg.block_size

\* Lines 596-599: workload parameters; the deadline is taken from the clock
\* here, before start_time.
CalcWorkload ==
    /\ pc = "deadline"
    /\ total_ops' = TotalOps
    /\ deadline' = IF time_based THEN now + cfg.runtime ELSE 0
    /\ pc' = "start"
    /\ UNCHANGED <<refused_at, processed, aux, res, cfg, now, start_time, end_time, elapsed_sec, submitted_ops,
                   completed_ops, in_flight, io_contexts, latencies, sq_pending,
                   sq_ring, kernel, cq, head, count, buf_idx, ring_err,
                   neg_reaped, exit_code, fatal_msg, printed>>

\* Line 614: TimePoint start_time = Clock::now()
RecordStart ==
    /\ pc = "start"
    /\ start_time' = now
    /\ pc' = "prime"
    /\ UNCHANGED <<refused_at, processed, aux, res, cfg, now, deadline, end_time, elapsed_sec, total_ops,
                   submitted_ops, completed_ops, in_flight, io_contexts,
                   latencies, sq_pending, sq_ring, kernel, cq, head, count,
                   buf_idx, ring_err, neg_reaped, exit_code, fatal_msg, printed>>

\* The slot a prime step uses: int buf_idx = in_flight
PrimeSlot == in_flight

\* (variant: the window test is off by one)
PrimeCond_OffByOne == submitted_ops < total_ops /\ in_flight <= cfg.iodepth

\* Line 619: while (submitted_ops < total_ops && in_flight < cfg.iodepth)
PrimeCond == submitted_ops < total_ops /\ in_flight < cfg.iodepth

\* Lines 619-646: one iteration of the prime loop, or its exit.
Prime ==
    /\ pc = "prime"
    /\ IF PrimeCond
       THEN LET idx == PrimeSlot IN
            IF SqFull
            THEN /\ io_contexts' = [io_contexts EXCEPT ![idx].submit_time = now]
                 /\ Fatal("Failed to get SQE")
                 /\ UNCHANGED <<sq_pending, submitted_ops, in_flight>>
            ELSE /\ io_contexts' = [io_contexts EXCEPT ![idx].submit_time = now]
                 /\ sq_pending' = Append(sq_pending, Entry(BuildSqe(idx), idx))
                 /\ submitted_ops' = submitted_ops + 1
                 /\ in_flight' = in_flight + 1
                 /\ pc' = "prime"
                 /\ NoFatal
       ELSE /\ pc' = "initial_submit"
            /\ NoFatal
            /\ UNCHANGED <<io_contexts, sq_pending, submitted_ops, in_flight>>
    /\ UNCHANGED <<refused_at, processed, aux, res, cfg, now, deadline, start_time, end_time, elapsed_sec,
                   total_ops, completed_ops, latencies, sq_ring, kernel, cq,
                   head, count, buf_idx, ring_err, neg_reaped, printed>>

\* (variant: with sq-poll the call does not flush the tail)
FlushAndEnter_SqpollNoFlush ==
    IF cfg.submit_mode = SQPOLL
    THEN UNCHANGED <<sq_ring, sq_pending, kernel>>
    ELSE /\ kernel' = kernel \cup {(sq_ring \o sq_pending)[i] :
                                      i \in 1 .. (Len(sq_ring) + Len(sq_pending))}
         /\ sq_ring' = <<>>
         /\ sq_pending' = <<>>

\* io_uring_submit / io_uring_submit_and_wait publish the built entries to the
\* kernel (the tail flush).  Without sq-poll the call enters the kernel, which
\* consumes every flushed entry before it returns; with sq-poll the entries
\* wait in the ring for the kernel thread.
FlushAndEnter ==
    IF cfg.submit_mode = SQPOLL
    THEN /\ sq_ring' = sq_ring \o sq_pending
         /\ sq_pending' = <<>>
         /\ UNCHANGED kernel
    ELSE /\ kernel' = kernel \cup {(sq_ring \o sq_pending)[i] :
                                      i \in 1 .. (Len(sq_ring) + Len(sq_pending))}
         /\ sq_ring' = <<>>
         /\ sq_pending' = <<>>

\* What the engine does with a negative result of the initial io_uring_submit
\* and of the io_uring_submit of the split discipline: fatal_error.
SubmitFailed(r) ==
    /\ ring_err' = [call |-> "io_uring_submit", err |-> r]
    /\ Fatal("io_uring_submit failed")

\* Lines 648-655: the initial io_uring_submit and its check.
InitialSubmit ==
    /\ pc = "initial_submit"
    /\ FlushAndEnter
    /\ \/ /\ pc' = "loop"
          /\ NoFatal
          /\ UNCHANGED ring_err
       \/ \E r \in Errnos : SubmitFailed(r)
    /\ UNCHANGED <<refused_at, processed, aux, res, cfg, now, deadline, start_time, end_time, elapsed_sec,
                   total_ops, submitted_ops, completed_ops, in_flight,
                   io_contexts, latencies, cq, head, count, buf_idx,
                   neg_reaped, printed>>

\* (variant: the loop stops draining one completion early)
LoopCond_EarlyExit == in_flight > 1 \/ (~time_based /\ completed_ops < total_ops)

\* Line 659: while (in_flight > 0 || (!time_based && completed_ops < total_ops))
LoopCond == in_flight > 0 \/ (~time_based /\ completed_ops < total_ops)

\* Lines 659-664: the loop condition and the switch on the discipline.
LoopCheck ==
    /\ pc = "loop"
    /\ pc' = IF ~LoopCond THEN "end"
             ELSE IF cfg.submit_mode = SUBMIT_AND_WAIT THEN "submit_and_wait"
             ELSE IF cfg.submit_mode = SUBMIT THEN "submit"
             ELSE "sq_flush"
    /\ UNCHANGED <<refused_at, processed, aux, res, cfg, now, deadline, start_time, end_time, elapsed_sec,
                   total_ops, submitted_ops, completed_ops, in_flight,
                   io_contexts, latencies, sq_pending, sq_ring, kernel, cq, head,
                   count, buf_idx, ring_err, neg_reaped, exit_code, fatal_msg,
                   printed>>

\* Lines 688-691: if (ret < 0) fatal_error("io_uring wait failed", ret)
WaitFailed(call, r) ==
    /\ ring_err' = [call |-> call, err |-> r]
    /\ Fatal("io_uring wait failed")

\* Lines 694-697: unsigned count = 0; the for_each cursor starts at the
\* consumer pointer.
StartReap ==
    /\ pc' = "reap"
    /\ head' = 0
    /\ count' = 0

\* Line 668, first half of io_uring_submit_and_wait(&ring, 1): flush and
\* submit; the call then blocks in the kernel.
SubmitAndWaitEnter ==
    /\ pc = "submit_and_wait"
    /\ FlushAndEnter
    /\ \/ /\ pc' = "submit_and_wait_blocked"
          /\ NoFatal
          /\ UNCHANGED ring_err
       \/ \E r \in Errnos : WaitFailed("io_uring_submit_and_wait", r)
    /\ UNCHANGED <<refused_at, processed, aux, res, cfg, now, deadline, start_time, end_time, elapsed_sec,
                   total_ops, submitted_ops, completed_ops, in_flight,
                   io_contexts, latencies, cq, head, count, buf_idx,
                   neg_reaped, printed>>

\* Line 668, second half: the call returns once a completion is ready, or
\* with an error.
SubmitAndWaitReturn ==
    /\ pc = "submit_and_wait_blocked"
    /\ \/ /\ Len(cq) > 0
          /\ StartReap
          /\ NoFatal
          /\ UNCHANGED ring_err
       \/ /\ \E r \in Errnos : WaitFailed("io_uring_submit_and_wait", r)
          /\ UNCHANGED <<head, count>>
    /\ UNCHANGED <<refused_at, processed, aux, res, cfg, now, deadline, start_time, end_time, elapsed_sec,
                   total_ops, submitted_ops, completed_ops, in_flight,
                   io_contexts, latencies, sq_pending, sq_ring, kernel, cq,
                   buf_idx, neg_reaped, printed>>

\* Lines 673-677: io_uring_submit of the split discipline, and its check.
SplitSubmit ==
    /\ pc = "submit"
    /\ FlushAndEnter
    /\ \/ /\ pc' = "wait_cqe"
          /\ NoFatal
          /\ UNCHANGED ring_err
       \/ \E r \in Errnos : SubmitFailed(r)
    /\ UNCHANGED <<refused_at, processed, aux, res, cfg, now, deadline, start_time, end_time, elapsed_sec,
                   total_ops, submitted_ops, completed_ops, in_flight,
                   io_contexts, latencies, cq, head, count, buf_idx,
                   neg_reaped, printed>>

\* What the engine does with the result of the io_uring_submit of the sq-poll
\* discipline (line 683): the result is not looked at.
SqpollSubmitResult(r) ==
    /\ ring_err' = [call |-> "io_uring_submit", err |-> r]
    /\ pc' = "wait_cqe"
    /\ NoFatal

\* Line 683: io_uring_submit(&ring) of the sq-poll discipline.
SqpollFlush ==
    /\ pc = "sq_flush"
    /\ FlushAndEnter
    /\ \/ /\ pc' = "wait_cqe"
          /\ NoFatal
          /\ UNCHANGED ring_err
       \/ \E r \in Errnos : SqpollSubmitResult(r)
    /\ UNCHANGED <<refused_at, processed, aux, res, cfg, now, deadline, start_time, end_time, elapsed_sec,
                   total_ops, submitted_ops, completed_ops, in_flight,
                   io_contexts, latencies, cq, head, count, buf_idx,
                   neg_reaped, printed>>

\* Lines 678 and 684: io_uring_wait_cqe returns once a completion is ready,
\* or with an error.
WaitCqe ==
    /\ pc = "wait_cqe"
    /\ \/ /\ Len(cq) > 0
          /\ StartReap
          /\ NoFatal
          /\ UNCHANGED ring_err
       \/ /\ \E r \in Errnos : WaitFailed("io_uring_wait_cqe", r)
          /\ UNCHANGED <<head, count>>
    /\ UNCHANGED <<refused_at, processed, aux, res, cfg, now, deadline, start_time, end_time, elapsed_sec,
                   total_ops, submitted_ops, completed_ops, in_flight,
                   io_contexts, latencies, sq_pending, sq_ring, kernel, cq,
                   buf_idx, neg_reaped, printed>>

\* (variant: the result of a completion is not looked at)
CqeFailed_Ignored(cqe) == FALSE

\* Line 699: if (cqe->res < 0)
CqeFailed(cqe) == cqe.res < 0

\* (variant: the decrement is forgotten)
InFlightAfterReap_NoDecrement == in_flight

\* Line 714: in_flight--
InFlightAfterReap == in_flight - 1

\* (variant: the consumer pointer stops one entry short)
io_uring_cq_advance_OneShort(ring_cq, nr) ==
    IF nr > 0 THEN SubSeq(ring_cq, nr, Len(ring_cq)) ELSE ring_cq

\* Line 750: io_uring_cq_advance(&ring, count) moves the consumer pointer
\* past nr entries.
io_uring_cq_advance(ring_cq, nr) == SubSeq(ring_cq, nr + 1, Len(ring_cq))

\* Lines 697-715 and 750: one iteration of io_uring_for_each_cqe up to the
\* reissue decision, or, when the cursor has reached the tail (which is read
\* again at every step), the end of the loop and io_uring_cq_advance(&ring,
\* count); head and count go out of scope there.
ForEachCqe ==
    /\ pc = "reap"
    /\ IF head < Len(cq)
       THEN LET cqe == cq[head + 1] IN
            IF CqeFailed(cqe)
            THEN /\ Fatal("I/O operation failed")
                 /\ neg_reaped' = TRUE
                 /\ UNCHANGED <<buf_idx, latencies, completed_ops, in_flight,
                                head, count, cq, processed>>
            ELSE LET idx == io_uring_cqe_get_data(cqe)
                     complete_time == now
                     latency_us == complete_time - io_contexts[idx].submit_time
                 IN  /\ buf_idx' = idx
                     /\ latencies' = Append(latencies, latency_us)
                     /\ completed_ops' = completed_ops + 1
                     /\ in_flight' = InFlightAfterReap
                     /\ count' = count + 1
                     /\ pc' = "decide"
                     /\ NoFatal
                     /\ neg_reaped' = (neg_reaped \/ cqe.res < 0)
                     /\ processed' = processed \cup {cqe.op}
                     /\ UNCHANGED <<cq, head>>
       ELSE /\ cq' = io_uring_cq_advance(cq, count)
            /\ head' = 0
            /\ count' = 0
            /\ pc' = "loop"
            /\ NoFatal
            /\ UNCHANGED <<buf_idx, latencies, completed_ops, in_flight,
                           neg_reaped, processed>>
    /\ UNCHANGED <<refused_at, aux, res, cfg, now, deadline, start_time, end_time,
                   elapsed_sec, total_ops, submitted_ops, io_contexts, sq_pending,
                   sq_ring, kernel, ring_err, printed>>

\* (variant: the budget test is off by one)
should_submit_OffByOne ==
    IF time_based THEN now < deadline ELSE submitted_ops <= total_ops

\* Line 718: bool should_submit =
\*     time_based ? (Clock::now() < deadline) : (submitted_ops < total_ops)
should_submit == IF time_based THEN now < deadline ELSE submitted_ops < total_ops

\* Lines 718-719: the reissue decision; without a reissue the iteration ends
\* here and the cursor moves on.
Decide ==
    /\ pc = "decide"
    /\ IF should_submit
       THEN /\ pc' = "reissue"
            /\ UNCHANGED head
       ELSE /\ pc' = "reap"
            /\ head' = head + 1
    /\ refused_at' = IF ~should_submit /\ refused_at < 0 THEN submitted_ops
                     ELSE refused_at
    /\ UNCHANGED <<processed, aux, res, cfg, now, deadline, start_time, end_time, elapsed_sec,
                   total_ops, submitted_ops, completed_ops, in_flight,
                   io_contexts, latencies, sq_pending, sq_ring, kernel, cq,
                   count, buf_idx, ring_err, neg_reaped, exit_code, fatal_msg,
                   printed>>

\* (variant: the reissue picks its slot the way the prime loop does)
ReissueSlot_AsPrime == in_flight

\* The slot a reissue uses: the buf_idx read from the completion.
ReissueSlot == buf_idx

\* Lines 721-746: the reissue into the slot of the completion; the cursor
\* moves on.
Reissue ==
    /\ pc = "reissue"
    /\ LET idx == ReissueSlot IN
       /\ io_contexts' = [io_contexts EXCEPT ![idx].submit_time = now]
       /\ IF SqFull
          THEN /\ Fatal("Failed to get SQE")
               /\ UNCHANGED <<sq_pending, submitted_ops, in_flight, head>>
          ELSE /\ sq_pending' = Append(sq_pending, Entry(BuildSqe(idx), idx))
               /\ submitted_ops' = submitted_ops + 1
               /\ in_flight' = in_flight + 1
               /\ head' = head + 1
               /\ pc' = "reap"
               /\ NoFatal
    /\ UNCHANGED <<refused_at, processed, aux, res, cfg, now, deadline, start_time, end_time, elapsed_sec,
                   total_ops, completed_ops, latencies, sq_ring, kernel, cq,
                   count, buf_idx, ring_err, neg_reaped, printed>>

\* Lines 753-758: end timestamp, elapsed, print_metrics.
Finish ==
    /\ pc = "end"
    /\ end_time' = now
    /\ elapsed_sec' = now - start_time
    /\ printed' = TRUE
    /\ pc' = "free_buffers"
    /\ UNCHANGED <<refused_at, processed, aux, res, cfg, now, deadline, start_time, total_ops, submitted_ops,
                   completed_ops, in_flight, io_contexts, latencies, sq_pending,
                   sq_ring, kernel, cq, head, count, buf_idx, ring_err,
                   neg_reaped, exit_code, fatal_msg>>

(* ------------------------------ teardown ------------------------------- *)
\* Lines 760-765: free(io_contexts[i].buffer) for every slot.
FreeBuffers ==
    /\ pc = "free_buffers"
    /\ res' = [res EXCEPT !.buffers = "freed"]
    /\ pc' = "queue_exit"
    /\ UNCHANGED <<refused_at, processed, aux, cfg, now, deadline, start_time, end_time, elapsed_sec,
                   total_ops, submitted_ops, completed_ops, in_flight,
                   io_contexts, latencies, sq_pending, sq_ring, kernel, cq, head,
                   count, buf_idx, ring_err, neg_reaped, exit_code, fatal_msg,
                   printed>>

\* Line 767: io_uring_queue_exit closes the ring; the kernel drops the
\* registrations of the ring with it.
QueueExit ==
    /\ pc = "queue_exit"
    /\ res' = [res EXCEPT !.ring_open = FALSE, !.reg_files = <<>>,
                          !.reg_buffers = <<>>]
    /\ pc' = "close"
    /\ UNCHANGED <<refused_at, processed, aux, cfg, now, deadline, start_time, end_time, elapsed_sec,
                   total_ops, submitted_ops, completed_ops, in_flight,
                   io_contexts, latencies, sq_pending, sq_ring, kernel, cq, head,
                   count, buf_idx, ring_err, neg_reaped, exit_code, fatal_msg,
                   printed>>

\* Lines 769-770: close(nvme.fd); return 0
CloseDevice ==
    /\ pc = "close"
    /\ res' = [res EXCEPT !.fd_open = FALSE]
    /\ pc' = "done"
    /\ UNCHANGED <<refused_at, processed, aux, cfg, now, deadline, start_time, end_time, elapsed_sec,
                   total_ops, submitted_ops, completed_ops, in_flight,
                   io_contexts, latencies, sq_pending, sq_ring, kernel, cq, head,
                   count, buf_idx, ring_err, neg_reaped, exit_code, fatal_msg,
                   printed>>

(* ---------------------------- environment ------------------------------ *)
SetupPcs == {"setup_io_uring", "register_files", "alloc_contexts",
             "register_buffers"}

TeardownPcs == {"free_buffers", "queue_exit", "close"}

Running == pc \notin {"done", "fatal"}

\* The steady clock advances.  Clock value 0 is the reading of line 599; the
\* clock is not read before it, nor after end_time is taken.
Tick ==
    /\ Running
    /\ pc \notin SetupPcs \cup TeardownPcs
    /\ pc # "deadline"
    /\ now < MaxTime
    /\ now' = now + 1
    /\ UNCHANGED <<refused_at, processed, aux, res, cfg, pc, deadline, start_time, end_time, elapsed_sec,
                   total_ops, submitted_ops, completed_ops, in_flight,
                   io_contexts, latencies, sq_pending, sq_ring, kernel, cq, head,
                   count, buf_idx, ring_err, neg_reaped, exit_code, fatal_msg,
                   printed>>

\* sq-poll: the kernel thread consumes the oldest flushed entry.
KernelSqThread ==
    /\ Running
    /\ cfg.submit_mode = SQPOLL
    /\ Len(sq_ring) > 0
    /\ kernel' = kernel \cup {Head(sq_ring)}
    /\ sq_ring' = Tail(sq_ring)
    /\ UNCHANGED <<refused_at, processed, aux, res, cfg, pc, now, deadline, start_time, end_time, elapsed_sec,
                   total_ops, submitted_ops, completed_ops, in_flight,
                   io_contexts, latencies, sq_pending, cq, head, count, buf_idx,
                   ring_err, neg_reaped, exit_code, fatal_msg, printed>>

\* The result of a completed operation: the bytes moved (0 for an NVMe
\* command), or a negative errno.
CqeResults(e) == {IF e.sqe.opcode = "URING_CMD" THEN 0 ELSE e.sqe.len, -EIO}

\* The engine is inside io_uring_for_each_cqe (lines 697-748).
InIteration == pc \in {"reap", "decide", "reissue"}

\* The completion the kernel posts for an operation: the tag is echoed.  The
\* entry remembers whether it was posted while an iteration was in progress.
Cqe(e, r) == [user_data |-> e.sqe.user_data, res |-> r, op |-> e.op,
              slot |-> e.slot, stamp |-> e.stamp, in_iter |-> InIteration]

\* The kernel completes one of the operations it holds, in any order, and
\* posts the completion at the tail of the completion ring.
KernelComplete ==
    /\ Running
    /\ time_based => (now >= deadline \/ submitted_ops < MaxOps)
    /\ \E e \in kernel : \E r \in CqeResults(e) :
          /\ kernel' = kernel \ {e}
          /\ cq' = Append(cq, Cqe(e, r))
    /\ UNCHANGED <<refused_at, processed, aux, res, cfg, pc, now, deadline, start_time, end_time, elapsed_sec,
                   total_ops, submitted_ops, completed_ops, in_flight,
                   io_contexts, latencies, sq_pending, sq_ring, head, count,
                   buf_idx, ring_err, neg_reaped, exit_code, fatal_msg, printed>>

Next ==
    \/ SetupIoUring
    \/ RegisterFiles
    \/ AllocContexts
    \/ RegisterBuffers
    \/ CalcWorkload
    \/ RecordStart
    \/ Prime
    \/ InitialSubmit
    \/ LoopCheck
    \/ SubmitAndWaitEnter
    \/ SubmitAndWaitReturn
    \/ SplitSubmit
    \/ SqpollFlush
    \/ WaitCqe
    \/ ForEachCqe
    \/ Decide
    \/ Reissue
    \/ Finish
    \/ FreeBuffers
    \/ QueueExit
    \/ CloseDevice
    \/ Tick
    \/ KernelSqThread
    \/ KernelComplete

Spec == Init /\ [][Next]_vars

\* The steps of the program (main's thread), without the environment.
EngineStep ==
    \/ SetupIoUring
    \/ RegisterFiles
    \/ AllocContexts
    \/ RegisterBuffers
    \/ CalcWorkload
    \/ RecordStart
    \/ Prime
    \/ InitialSubmit
    \/ LoopCheck
    \/ SubmitAndWaitEnter
    \/ SubmitAndWaitReturn
    \/ SplitSubmit
    \/ SqpollFlush
    \/ WaitCqe
    \/ ForEachCqe
    \/ Decide
    \/ Reissue
    \/ Finish
    \/ FreeBuffers
    \/ QueueExit
    \/ CloseDevice

\* The builder is chosen by passthrough and is_write and has no part in the
\* control flow of the loop; the progress check runs the direct read path.
LiveInit ==
    /\ Init
    /\ ~cfg.passthrough
    /\ ~cfg.is_write

\* fatal_error was called because a call of the setup or of the ring failed.
CallFailed ==
    /\ pc = "fatal"
    /\ fatal_msg \notin {"I/O operation failed", "Failed to get SQE"}

\* Progress: main's thread keeps running (a step other than the failure of a
\* call is taken when one stays possible), the kernel completes the
\* operations it holds, the sq-poll thread consumes the flushed entries, and
\* the clock advances.
SpecLive ==
    /\ LiveInit
    /\ [][Next]_vars
    /\ WF_vars(EngineStep /\ ~CallFailed')
    /\ WF_vars(KernelComplete)
    /\ WF_vars(KernelSqThread)
    /\ WF_vars(Tick)

(* =========================== helper functions ========================== *)
(* The functions main calls, as operators, and a second specification that *)
(* calls each of them once on an input drawn from a bounded set and        *)
(* records the call in `aux`.                                              *)

\* (variant: the deferred-task-run hint is set whenever sq-poll is off)
setup_io_uring_AlwaysDefer(passthrough, submit_mode, iopoll) ==
    LET f1 == IF passthrough THEN {"SQE128", "CQE32"} ELSE {}
        f2 == IF iopoll THEN f1 \cup {"IOPOLL"} ELSE f1
    IN  IF submit_mode = SQPOLL
        THEN [flags |-> f2 \cup {"SQPOLL", "SINGLE_ISSUER"}, sq_thread_idle |-> 2000]
        ELSE [flags |-> f2 \cup {"SINGLE_ISSUER", "DEFER_TASKRUN"},
              sq_thread_idle |-> 0]

\* Lines 215-241: the io_uring_params setup_io_uring builds (flags as a set,
\* |= as union; params = {} leaves sq_thread_idle 0).
setup_io_uring(passthrough, submit_mode, iopoll) ==
    LET f1 == IF passthrough THEN {"SQE128", "CQE32"} ELSE {}
        f2 == IF iopoll THEN f1 \cup {"IOPOLL"} ELSE f1
    IN  IF submit_mode = SQPOLL
        THEN [flags |-> f2 \cup {"SQPOLL", "SINGLE_ISSUER"}, sq_thread_idle |-> 2000]
        ELSE IF ~iopoll
        THEN [flags |-> f2 \cup {"SINGLE_ISSUER", "DEFER_TASKRUN"},
              sq_thread_idle |-> 0]
        ELSE [flags |-> f2 \cup {"SINGLE_ISSUER"}, sq_thread_idle |-> 0]

\* (variant: the block length is not subtracted from the upper end)
random_lba_NoSubtract(max_lba, block_lbas) ==
    IF max_lba <= block_lbas THEN {0} ELSE 0 .. max_lba

\* Lines 388-399: the values random_lba can return (the uniform draw is any
\* value of [0, max_start]).
random_lba(max_lba, block_lbas) ==
    IF max_lba <= block_lbas THEN {0} ELSE 0 .. (max_lba - block_lbas)

\* The variables of the engine, which the function checks leave alone.
engine_vars == <<refused_at, processed, res, cfg, pc, now, deadline, start_time, end_time, elapsed_sec,
                 total_ops, submitted_ops, completed_ops, in_flight, io_contexts,
                 latencies, sq_pending, sq_ring, kernel, cq, head, count, buf_idx,
                 ring_err, neg_reaped, exit_code, fatal_msg, printed>>

\* Line 560: setup_io_uring is called with the discipline, io-poll and path
\* of the configuration.
CallSetupIoUring ==
    /\ aux = NoCall
    /\ \E pt \in BOOLEAN, sm \in SubmitMode, iopoll \in BOOLEAN :
          aux' = [fn |-> "setup_io_uring",
                  in |-> [passthrough |-> pt, submit_mode |-> sm, iopoll |-> iopoll],
                  out |-> setup_io_uring(pt, sm, iopoll)]
    /\ UNCHANGED engine_vars

\* Lines 621 and 721: random_lba(nvme.nlba, block_lbas)
CallRandomLba ==
    /\ aux = NoCall
    /\ \E nlba \in 0 .. MaxNlba, bl \in 1 .. MaxBlockLbas :
          \E L \in random_lba(nlba, bl) :
             aux' = [fn |-> "random_lba", in |-> [nlba |-> nlba, block_lbas |-> bl],
                     out |-> L]
    /\ UNCHANGED engine_vars

\* 2^32 and 2^64 at the word width of the model.
U32 == 2 ^ WordBits
U64 == U32 * U32

\* Line 596: uint64_t block_lbas = cfg.block_size / nvme.lba_size
block_lbas_of(block_size, lba_size) == block_size \div lba_size

\* (variant: the high dword is taken with a shift that is one bit short)
nvme_uring_cmd_ShortShift(opcode, lba, block_lbas, lba_size) ==
    LET blocks == block_lbas % U32
    IN  [opcode |-> opcode,
         data_len |-> (blocks * lba_size) % U32,
         cdw10 |-> lba % U32,
         cdw11 |-> (lba \div (U32 \div 2)) % U32,
         cdw12 |-> (blocks + U32 - 1) % U32]

\* Lines 485-492 and 512-519: the nvme_uring_cmd of the passthrough builders.
\* The block count arrives as uint32_t blocks; data_len, cdw10, cdw11 and
\* cdw12 are 32-bit fields.
nvme_uring_cmd(opcode, lba, block_lbas, lba_size) ==
    LET blocks == block_lbas % U32
    IN  [opcode |-> opcode,
         data_len |-> (blocks * lba_size) % U32,
         cdw10 |-> lba % U32,
         cdw11 |-> (lba \div U32) % U32,
         cdw12 |-> (blocks + U32 - 1) % U32]

\* Lines 626-633: the passthrough builder of the workload kind is called with
\* the drawn LBA and block_lbas.
CallPassthroughCmd ==
    /\ aux = NoCall
    /\ \E is_write \in BOOLEAN, lba \in 0 .. (U64 - 1), lbads \in 0 .. MaxLbads,
          k \in 1 .. (U32 + 1) :
          LET lba_size == 2 ^ lbads
              block_size == k * lba_size
          IN  aux' = [fn |-> "nvme_uring_cmd",
                      in |-> [is_write |-> is_write, lba |-> lba,
                              block_size |-> block_size, lba_size |-> lba_size],
                      out |-> nvme_uring_cmd(
                                 IF is_write THEN "nvme_cmd_write" ELSE "nvme_cmd_read",
                                 lba, block_lbas_of(block_size, lba_size), lba_size)]
    /\ UNCHANGED engine_vars

\* Device paths: strings over the letters of the two prefixes and one other.
Chars == {"n", "v", "m", "e", "g", "d"}
Paths == UNION {[1 .. k -> Chars] : k \in 0 .. MaxPathLen}
NVME == <<"n", "v", "m", "e">>
NG == <<"n", "g">>

\* std::string::find: the first position of pat in s, 0 for npos.
Find(s, pat) ==
    LET hits == {i \in 1 .. (Len(s) - Len(pat) + 1) :
                    SubSeq(s, i, i + Len(pat) - 1) = pat}
    IN  IF hits = {} THEN 0 ELSE CHOOSE i \in hits : \A j \in hits : i <= j

\* std::string::replace(pos, n, r)
Replace(s, pos, n, r) == SubSeq(s, 1, pos - 1) \o r \o SubSeq(s, pos + n, Len(s))

\* Lines 275-300: block_to_char_device on the resolved path; the result and
\* whether the warning of line 283 was written.
block_to_char_device(resolved) ==
    LET has_nvme == Find(resolved, NVME) # 0
        has_ng == Find(resolved, NG) # 0
    IN  IF ~has_nvme /\ ~has_ng THEN [path |-> resolved, warned |-> TRUE]
        ELSE IF has_ng /\ ~has_nvme THEN [path |-> resolved, warned |-> FALSE]
        ELSE LET pos == Find(resolved, NVME)
             IN  IF pos # 0
                 THEN [path |-> Replace(resolved, pos, 4, NG), warned |-> FALSE]
                 ELSE [path |-> resolved, warned |-> FALSE]

\* Line 309: device_path = block_to_char_device(path)
CallBlockToCharDevice ==
    /\ aux = NoCall
    /\ \E path \in Paths :
          aux' = [fn |-> "block_to_char_device", in |-> path,
                  out |-> block_to_char_device(path)]
    /\ UNCHANGED engine_vars

\* Sorted latency samples (print_metrics sorts before it calls percentile).
SortedSamples ==
    {x \in UNION {[1 .. n -> 0 .. MaxLatency] : n \in 0 .. MaxSample} :
        \A i \in 1 .. (Len(x) - 1) : x[i] <= x[i + 1]}

\* (variant: no interpolation, the lower neighbour is returned)
percentile_Lower(sorted_latencies, p) ==
    IF Len(sorted_latencies) = 0 THEN 0
    ELSE LET index100 == p * (Len(sorted_latencies) - 1)
             lower == index100 \div 100
         IN  100 * sorted_latencies[lower + 1]

\* Lines 427-438: percentile, in exact arithmetic; the result is returned
\* times 100 (index = index100 / 100, frac = frac100 / 100).  Positions are
\* 0-based in the source and 1-based in a sequence.
percentile(sorted_latencies, p) ==
    IF Len(sorted_latencies) = 0 THEN 0
    ELSE LET index100 == p * (Len(sorted_latencies) - 1)
             lower == index100 \div 100
             upper == lower + 1
         IN  IF upper >= Len(sorted_latencies)
             THEN 100 * sorted_latencies[Len(sorted_latencies)]
             ELSE LET frac100 == index100 - 100 * lower
                  IN  sorted_latencies[lower + 1] * (100 - frac100)
                      + sorted_latencies[upper + 1] * frac100

\* Lines 456-458: percentile(sorted_lat, p)
CallPercentile ==
    /\ aux = NoCall
    /\ \E x \in SortedSamples, p \in 0 .. 100 :
          aux' = [fn |-> "percentile", in |-> [x |-> x, p |-> p],
                  out |-> percentile(x, p)]
    /\ UNCHANGED engine_vars

\* Before any call: the engine at rest in one configuration.
FnInit ==
    /\ Init
    /\ cfg = [iodepth |-> 1, size |-> 1, runtime |-> 0, block_size |-> 1,
              passthrough |-> FALSE, is_write |-> FALSE,
              submit_mode |-> SUBMIT_AND_WAIT]

FnNext ==
    \/ CallSetupIoUring
    \/ CallRandomLba
    \/ CallPassthroughCmd
    \/ CallBlockToCharDevice
    \/ CallPercentile

SpecFn == FnInit /\ [][FnNext]_vars

(* ============================== properties ============================= *)

\* The submissions that are built and not yet reaped, as <<tag, ordinal>>:
\* those in the submission ring, in the kernel, and in the completion ring
\* beyond the entries this iteration has processed.
Unreaped ==
    {<<sq_pending[i].sqe.user_data, sq_pending[i].op>> : i \in 1 .. Len(sq_pending)}
    \cup {<<sq_ring[i].sqe.user_data, sq_ring[i].op>> : i \in 1 .. Len(sq_ring)}
    \cup {<<e.sqe.user_data, e.op>> : e \in kernel}
    \cup {<<cq[i].user_data, cq[i].op>> : i \in (count + 1) .. Len(cq)}

Outstanding(i) == Cardinality({u \in Unreaped : u[1] = i})

LoopExited == pc \in {"end", "done"} \cup TeardownPcs

\* C1: at every boundary of the engine loop, in_flight = submitted_ops -
\* completed_ops and 0 <= in_flight <= iodepth.
C1_InFlightAccounting ==
    /\ in_flight = submitted_ops - completed_ops
    /\ 0 <= in_flight
    /\ in_flight <= cfg.iodepth

\* A completion was processed and its slot reissued with the window full.
C1_Witness ==
    /\ pc = "reap"
    /\ completed_ops > 0
    /\ submitted_ops > cfg.iodepth
    /\ in_flight = cfg.iodepth
    /\ cfg.iodepth > 1

\* C2: for every slot at most one submission tagged with it is outstanding
\* (built and not yet reaped) at any time.
C2_SlotExclusive == \A i \in Slots : Outstanding(i) <= 1

\* Slot 1 was reissued while the submission of slot 0 is still outstanding.
C2_Witness ==
    /\ cfg.iodepth > 1
    /\ submitted_ops > cfg.iodepth
    /\ Outstanding(0) = 1
    /\ \E i \in 1 .. Len(sq_pending) :
          sq_pending[i].sqe.user_data = 1 /\ sq_pending[i].op >= cfg.iodepth

\* C3: in a byte-budget run submitted_ops never exceeds floor(size /
\* block_size), and when the loop has ended exactly that many operations are
\* submitted and completed.
C3_ByteBudgetExact ==
    cfg.runtime = 0 =>
        /\ submitted_ops <= cfg.size \div cfg.block_size
        /\ LoopExited => /\ submitted_ops = cfg.size \div cfg.block_size
                         /\ completed_ops = cfg.size \div cfg.block_size

\* A byte-budget run has ended whose budget is not a multiple of the block
\* size and is smaller than the window.
C3_Witness ==
    /\ pc = "done"
    /\ cfg.runtime = 0
    /\ cfg.size % cfg.block_size # 0
    /\ cfg.iodepth > cfg.size \div cfg.block_size
    /\ completed_ops > 0

\* C4: when the engine loop exits without a fatal error, completed_ops =
\* submitted_ops, in_flight = 0, and the ledger holds completed_ops samples.
C4_ExitAccounting ==
    LoopExited =>
        /\ completed_ops = submitted_ops
        /\ in_flight = 0
        /\ Len(latencies) = completed_ops

\* A duration run has ended after reissuing.
C4_Witness ==
    /\ pc = "done"
    /\ time_based
    /\ completed_ops > cfg.iodepth

\* C5: in a duration run of T seconds that ends normally the reported elapsed
\* time is >= T.
C5_ElapsedAtLeastRuntime ==
    (pc = "done" /\ time_based) => elapsed_sec >= cfg.runtime

\* C6: in a duration run of T seconds no submission is stamped with a
\* submit_time later than start + T.
C6_NoStampAfterDeadline ==
    (time_based /\ pc \notin {"deadline", "start"}) =>
        \A i \in Slots : io_contexts[i].submit_time <= start_time + cfg.runtime

\* C7: every submission built for slot i carries user-tag i and slot i's
\* buffer; every tag on a completion lies in 0..D-1, and the completion
\* handler resolves a completion to the slot used at submission.
C7_TagRoundTrip ==
    /\ \A e \in {sq_pending[i] : i \in 1 .. Len(sq_pending)}
                \cup {sq_ring[i] : i \in 1 .. Len(sq_ring)} \cup kernel :
          /\ e.sqe.user_data = e.slot
          /\ e.sqe.addr = io_contexts[e.slot].buffer
    /\ \A i \in 1 .. Len(cq) : cq[i].user_data \in Slots
    /\ pc \in {"decide", "reissue"} => buf_idx = cq[head + 1].slot

\* The completion of a passthrough write built for slot 1 was resolved.
C7_Witness ==
    /\ pc = "reissue"
    /\ cfg.passthrough
    /\ cfg.is_write
    /\ buf_idx = 1
    /\ cq[head + 1].slot = 1
    /\ submitted_ops > cfg.iodepth

\* C8: once a reaped completion carries a negative result the run is in the
\* fatal state with a non-zero exit code, the statistics are not printed, and
\* no further submission is built.
C8_NegativeResultFatal ==
    [][ /\ neg_reaped' => (pc' = "fatal" /\ exit_code' # 0 /\ ~printed')
        /\ neg_reaped => (submitted_ops' = submitted_ops /\ sq_pending' = sq_pending)
      ]_vars

\* A completion with a negative result was reaped after an earlier one was
\* reissued.
C8_Witness ==
    /\ neg_reaped
    /\ completed_ops > 0
    /\ fatal_msg = "I/O operation failed"

\* C9: every error returned by a submit or wait call, other than EAGAIN from
\* the submit-wait call, puts the run in the fatal state.
C9_RingErrorFatal ==
    (ring_err.err < 0
       /\ ~(ring_err.call = "io_uring_submit_and_wait" /\ ring_err.err = -EAGAIN))
    => pc = "fatal"

\* C11: every accepted configuration has exactly one of size and runtime
\* non-zero; with both or neither set no I/O is ever issued.
C11_ExactlyOneOfSizeRuntime ==
    submitted_ops > 0 => ((cfg.size = 0) # (cfg.runtime = 0))

\* C12: teardown order on a normal end: registrations dropped, ring closed,
\* buffers freed, device closed; no buffer is freed while the ring is open.
C12_TeardownOrder ==
    /\ res.buffers = "freed" => (~res.ring_open /\ res.reg_buffers = <<>>
                                   /\ res.reg_files = <<>>)
    /\ ~res.fd_open => res.buffers = "freed"

\* The entries of the submission ring and of the kernel.
Submitted ==
    {sq_pending[i] : i \in 1 .. Len(sq_pending)}
    \cup {sq_ring[i] : i \in 1 .. Len(sq_ring)} \cup kernel

\* C16: the device is the fixed file 0 in both paths and the pool is
\* registered as fixed buffers in direct mode only, before the first
\* submission is built; a direct submission names file 0 and the fixed buffer
\* that is the buffer of its slot.
C16_FixedRegistration ==
    /\ (pc = "prime" \/ Submitted # {}) =>
          /\ res.reg_files = <<nvme_fd>>
          /\ ~cfg.passthrough => /\ Len(res.reg_buffers) = cfg.iodepth
                                 /\ \A i \in Slots :
                                       res.reg_buffers[i + 1] = io_contexts[i].buffer
    /\ cfg.passthrough => res.reg_buffers = <<>>
    /\ \A e \in Submitted :
          /\ e.sqe.fixed_file
          /\ e.sqe.fd = 0
          /\ res.reg_files[e.sqe.fd + 1] = nvme_fd
          /\ ~cfg.passthrough =>
                /\ e.sqe.buf_index = e.slot
                /\ res.reg_buffers[e.sqe.buf_index + 1] = io_contexts[e.slot].buffer
                /\ e.sqe.addr = io_contexts[e.slot].buffer

\* Direct mode: the kernel holds a reissued submission of slot 1.
C16_Witness ==
    /\ ~cfg.passthrough
    /\ \E e \in kernel : e.slot = 1 /\ e.op >= cfg.iodepth /\ e.sqe.buf_index = 1

Min(a, b) == IF a <= b THEN a ELSE b

\* The engine is between two steps of the loop: after the prime phase or
\* after a processed completion, not inside the processing of one.
AtBoundary ==
    pc \in {"initial_submit", "loop", "submit_and_wait", "submit_and_wait_blocked",
            "submit", "sq_flush", "wait_cqe", "reap"}
    \/ LoopExited

\* C19: in a byte-budget run, after the prime phase and after every processed
\* completion, in_flight = min(D, total_ops - completed_ops).
C19_WindowFullThenDecays ==
    (cfg.runtime = 0 /\ AtBoundary) =>
        in_flight = Min(cfg.iodepth, cfg.size \div cfg.block_size - completed_ops)

\* The drain tail: the window of 2 has decayed to 1 after the budget of 3 was
\* issued.
C19_Witness ==
    /\ cfg.runtime = 0
    /\ pc = "reap"
    /\ cfg.iodepth = 2
    /\ submitted_ops = 3
    /\ completed_ops = 2
    /\ in_flight = 1

\* C20: the sample appended for a completion is the reap time minus the
\* submit time of the submission the completion belongs to, and is >= 0.
C20_LatencyOfOwnSubmission ==
    [][ Len(latencies') = Len(latencies) + 1 =>
          /\ latencies'[Len(latencies')] = now - cq[head + 1].stamp
          /\ latencies'[Len(latencies')] >= 0
      ]_vars

\* A sample of 1 was appended for a reissued submission that was stamped at
\* clock 1.
C20_Witness ==
    /\ pc = "decide"
    /\ cq[head + 1].op >= cfg.iodepth
    /\ cq[head + 1].stamp = 1
    /\ latencies[Len(latencies)] = 1

\* C13: setup_io_uring sets exactly the flags of the feature matrix.
C13_FeatureMatrix ==
    aux.fn = "setup_io_uring" =>
        LET f == aux.out.flags
            sqpoll == aux.in.submit_mode = SQPOLL
        IN  /\ "SINGLE_ISSUER" \in f
            /\ ("DEFER_TASKRUN" \in f) <=> (~sqpoll /\ ~aux.in.iopoll)
            /\ ("IOPOLL" \in f) <=> aux.in.iopoll
            /\ ("SQPOLL" \in f) <=> sqpoll
            /\ sqpoll => aux.out.sq_thread_idle = 2000
            /\ ("SQE128" \in f) <=> aux.in.passthrough
            /\ ("CQE32" \in f) <=> aux.in.passthrough
            /\ ~("DEFER_TASKRUN" \in f /\ "IOPOLL" \in f)
            /\ f \subseteq {"SINGLE_ISSUER", "DEFER_TASKRUN", "IOPOLL", "SQPOLL",
                            "SQE128", "CQE32"}

\* The split discipline with io-poll on the passthrough path.
C13_Witness ==
    /\ aux.fn = "setup_io_uring"
    /\ aux.in.submit_mode = SUBMIT
    /\ aux.in.iopoll
    /\ aux.in.passthrough
    /\ aux.out.flags = {"SQE128", "CQE32", "IOPOLL", "SINGLE_ISSUER"}

\* C14 as stated: for every nlba and every block_lbas >= 1 every returned LBA
\* L satisfies 0 <= L <= nlba - block_lbas.
C14_LbaInBounds ==
    aux.fn = "random_lba" =>
        (0 <= aux.out /\ aux.out <= aux.in.nlba - aux.in.block_lbas)

\* C14 as amended: when nlba >= block_lbas every returned LBA L satisfies
\* 0 <= L <= nlba - block_lbas; when nlba < block_lbas it is 0.
C14_LbaInBoundsWhenBlockFits ==
    aux.fn = "random_lba" =>
        /\ aux.in.nlba >= aux.in.block_lbas =>
              (0 <= aux.out /\ aux.out <= aux.in.nlba - aux.in.block_lbas)
        /\ aux.in.nlba < aux.in.block_lbas => aux.out = 0

\* The last LBA at which a block of 2 still fits was drawn.
C14_Witness ==
    /\ aux.fn = "random_lba"
    /\ aux.in.block_lbas = 2
    /\ aux.in.nlba > 2
    /\ aux.out = aux.in.nlba - 2

\* C15: the embedded NVMe command has the opcode of the workload kind, cdw10
\* and cdw11 that reassemble to the LBA, cdw12 = block_lbas - 1 and data
\* length S, all in 32-bit unsigned fields.
C15_NvmeCommandLayout ==
    aux.fn = "nvme_uring_cmd" =>
        LET c == aux.out
            S == aux.in.block_size
        IN  /\ c.opcode = IF aux.in.is_write THEN "nvme_cmd_write" ELSE "nvme_cmd_read"
            /\ c.cdw11 * U32 + c.cdw10 = aux.in.lba
            /\ c.cdw12 = (S \div aux.in.lba_size) - 1
            /\ c.data_len = S
            /\ \A v \in {c.cdw10, c.cdw11, c.cdw12, c.data_len} : v \in 0 .. (U32 - 1)

\* s contains pat at position i.
OccursAt(s, pat, i) ==
    /\ i >= 1
    /\ i + Len(pat) - 1 <= Len(s)
    /\ \A k \in 1 .. Len(pat) : s[i + k - 1] = pat[k]

Contains(s, pat) == \E i \in 1 .. Len(s) : OccursAt(s, pat, i)

\* t is s with its first "nvme" replaced by "ng".
FirstNvmeReplaced(s, t) ==
    \E i \in 1 .. Len(s) :
       /\ OccursAt(s, NVME, i)
       /\ \A j \in 1 .. (i - 1) : ~OccursAt(s, NVME, j)
       /\ t = [k \in 1 .. (Len(s) - 2) |->
                 IF k < i THEN s[k]
                 ELSE IF k = i THEN "n"
                 ELSE IF k = i + 1 THEN "g"
                 ELSE s[k + 2]]

\* C17: on the resolved path, nvme and not ng: first nvme replaced by ng; ng and not nvme:
\* unchanged; every other case (neither, or both): warning, path unchanged.
C17_PathTranslation ==
    aux.fn = "block_to_char_device" =>
        LET s == aux.in
            has_nvme == Contains(s, NVME)
            has_ng == Contains(s, NG)
        IN  /\ (has_nvme /\ ~has_ng) => FirstNvmeReplaced(s, aux.out.path)
            /\ (has_ng /\ ~has_nvme) => aux.out.path = s
            /\ (has_nvme <=> has_ng) => (aux.out.warned /\ aux.out.path = s)

\* C18: for a non-empty sorted sample x of length n and p in 0..100,
\* percentile(x, p) = x[floor(i)]*(1-f) + x[ceil(i)]*f with i = (p/100)*(n-1)
\* and f = i - floor(i) (both sides times 100; positions 0-based).
C18_PercentileLaw ==
    (aux.fn = "percentile" /\ Len(aux.in.x) > 0) =>
        LET x == aux.in.x
            i100 == aux.in.p * (Len(x) - 1)
            floor_i == i100 \div 100
            ceil_i == (i100 + 99) \div 100
            f100 == i100 % 100
        IN  aux.out = x[floor_i + 1] * (100 - f100) + x[ceil_i + 1] * f100

\* An interpolated value between two different neighbours.
C18_Witness ==
    /\ aux.fn = "percentile"
    /\ aux.in.x = <<0, 1, 3>>
    /\ aux.in.p = 75
    /\ aux.out = 200

\* The engine is inside a call that blocks until a completion is ready:
\* io_uring_wait_cqe (lines 678, 684) or the wait of
\* io_uring_submit_and_wait (line 668).
Blocked == pc \in {"wait_cqe", "submit_and_wait_blocked"}

\* The ordinals of the submissions the kernel has been handed: flushed,
\* consumed, or completed.
Flushed ==
    {sq_ring[i].op : i \in 1 .. Len(sq_ring)}
    \cup {e.op : e \in kernel}
    \cup {cq[i].op : i \in 1 .. Len(cq)}

\* C21: in all three submit disciplines the engine never blocks waiting for a
\* completion while a built submission entry is still unflushed: every entry
\* of the prime phase and every reissue is flushed before the wait.
C21_FlushedBeforeWait ==
    Blocked =>
        /\ sq_pending = <<>>
        /\ \A u \in Unreaped : u[2] \in Flushed

\* The sq-poll engine waits after a reissue, which is flushed and not yet
\* consumed by the kernel thread.
C21_Witness ==
    /\ pc = "wait_cqe"
    /\ cfg.submit_mode = SQPOLL
    /\ submitted_ops > cfg.iodepth
    /\ sq_pending = <<>>
    /\ \E i \in 1 .. Len(sq_ring) : sq_ring[i].op >= cfg.iodepth

\* The engine is at a boundary of the steady-state loop: at its condition or
\* between the condition and the end of the wait.
AtLoopHead == pc \in {"loop", "submit_and_wait", "submit", "sq_flush"} \/ Blocked

\* C22: the engine never blocks waiting for a completion while in_flight = 0;
\* in a byte-budget run, whenever in_flight = 0 at the loop condition,
\* completed_ops = total_ops, so the second disjunct of the condition never
\* keeps the loop running on its own (also when total_ops = 0).
C22_NoWaitOnEmptyWindow ==
    /\ Blocked => in_flight > 0
    /\ (AtLoopHead /\ ~time_based /\ in_flight = 0) => completed_ops = total_ops
    /\ (AtLoopHead /\ in_flight = 0) => (pc = "loop" /\ ~LoopCond)

\* A byte-budget run larger than the window has drained: the loop condition
\* is reached with in_flight = 0 after reissues.
C22_Witness ==
    /\ pc = "loop"
    /\ ~time_based
    /\ in_flight = 0
    /\ total_ops > cfg.iodepth
    /\ completed_ops = total_ops

\* The ordinals of the completions that are posted and wait in the completion
\* ring beyond the entries this iteration has processed.
Waiting == {cq[i].op : i \in (count + 1) .. Len(cq)}

\* The ordinals of the submissions that are built and not yet completed.
NotPosted ==
    {sq_pending[i].op : i \in 1 .. Len(sq_pending)}
    \cup {sq_ring[i].op : i \in 1 .. Len(sq_ring)}
    \cup {e.op : e \in kernel}

\* C24: every completion the kernel posts is processed exactly once, also
\* when it is posted while an iteration is in progress: no completion is
\* counted twice (the processed ones are as many as completed_ops and none
\* of them waits in the ring), none is skipped (a posted completion is
\* either processed or still waits, and nothing waits when the loop has
\* ended), and the consumer pointer moves only at the end of the iteration,
\* past exactly the count entries processed in it.
C24_ProcessedExactlyOnce ==
    /\ count <= Len(cq)
    /\ Cardinality(processed) = completed_ops
    /\ \A i, j \in 1 .. Len(cq) : i # j => cq[i].op # cq[j].op
    /\ processed \cap Waiting = {}
    /\ processed \cup Waiting = (0 .. (submitted_ops - 1)) \ NotPosted
    /\ {cq[i].op : i \in 1 .. count} \subseteq processed
    /\ pc = "reap" => head = count
    /\ pc \in {"decide", "reissue"} => count = head + 1
    /\ (~InIteration /\ pc # "fatal") => count = 0
    /\ LoopExited => (cq = <<>> /\ processed = 0 .. (submitted_ops - 1))

\* A completion that the kernel posted while the iteration was in progress
\* has been processed in that iteration, after an earlier one; the consumer
\* pointer has not moved yet.
C24_Witness ==
    /\ pc = "reap"
    /\ count = 2
    /\ Len(cq) = 2
    /\ cq[2].in_iter
    /\ cq[2].op \in processed
    /\ cq[1].op \in processed

\* The run was ended by the environment: a ring call or the setup failed, or
\* an operation completed with a negative result.
EnvFailure == pc = "fatal" /\ fatal_msg # "Failed to get SQE"

\* The loop has been left with nothing in flight and every submitted
\* operation reaped.
Drained ==
    /\ LoopExited
    /\ in_flight = 0
    /\ processed = 0 .. (submitted_ops - 1)

\* C23: if the kernel completes every flushed operation with a non-negative
\* result and the clock reaches the deadline, the engine eventually leaves
\* the steady-state loop with in_flight = 0, in both termination modes, with
\* every remaining operation reaped; in a duration run no submission is
\* built after the first refused reissue.
C23_DrainsAndTerminates ==
    /\ <>(EnvFailure \/ Drained)
    /\ [](time_based /\ refused_at >= 0 => submitted_ops = refused_at)

\* A duration run of depth 2 has left the loop: a reissue was refused after
\* earlier reissues, and the operation still in flight then was reaped.
C23_Witness ==
    /\ pc = "end"
    /\ time_based
    /\ cfg.iodepth = 2
    /\ refused_at > cfg.iodepth
    /\ completed_ops = refused_at
    /\ in_flight = 0

\* The engine is about to call a submission builder.
BuilderCall == (pc = "prime" /\ PrimeCond) \/ pc = "reissue"

\* C10: at every call of a submission builder in_flight < D and the entries
\* built and not yet consumed by the kernel are fewer than the ring holds; the
\* queue-full abort does not happen.
C10_QueueNeverFull ==
    /\ BuilderCall => /\ in_flight < cfg.iodepth
                      /\ Len(sq_pending) + Len(sq_ring) < SqEntries
    /\ fatal_msg # "Failed to get SQE"

\* sq-poll: a reissue is built while a flushed entry still waits for the
\* kernel thread.
C10_Witness ==
    /\ pc = "reissue"
    /\ cfg.submit_mode = SQPOLL
    /\ Len(sq_ring) > 0

====
